---- MODULE Spec2Model ----
(***************************************************************************)
(* Trip analyzer: line parsing, aggregation into two tallies, and top-k    *)
(* ranking, as implemented by                                              *)
(*   "analyzer" : src/analyzer.cpp                                         *)
(*   "part000"  : src/unnamed/part_000, lines 176-427 (quote-aware CSV)    *)
(*   "khanapi"  : src/khanapi.kazavatov.cpp (stdin, instance fields)       *)
(*   "part001"  : src/unnamed/part_001, lines 1-182 (function-local tables)*)
(* A std::string is a sequence of one-character strings.                   *)
(***************************************************************************)
EXTENDS Integers, Sequences, FiniteSets, TLC

\* ------------------------------------------------------------------ bounds
\* lines read by one ingestion run
MaxLines == 3
\* hour numbers 0..MaxHour are written before the colon of a timestamp
MaxHour == 25
\* zero-padded to at most this many digits
MaxWidth == 3
\* characters of one field of a line handed to parseCSVLine
MaxFieldLen == 2
\* largest k a ranking query is asked for
MaxK == 3

\* hours of the per-zone array std::array<long long, 24>
NumHours == 24

\* ------------------------------------------------------------- characters
UpperCase == <<"A","B","C","D","E","F","G","H","I","J","K","L","M",
               "N","O","P","Q","R","S","T","U","V","W","X","Y","Z">>
LowerCase == <<"a","b","c","d","e","f","g","h","i","j","k","l","m",
               "n","o","p","q","r","s","t","u","v","w","x","y","z">>
DigitChars == <<"0","1","2","3","4","5","6","7","8","9">>

InSeq(s, c) == \E i \in 1..Len(s) : s[i] = c
IndexOf(s, c) == CHOOSE i \in 1..Len(s) : s[i] = c

\* std::isdigit / std::isspace / std::toupper in the "C" locale
isdigit(c) == InSeq(DigitChars, c)
isspace(c) == c \in {" ", "\t", "\n", "\r"}
toupper(c) == IF InSeq(LowerCase, c) THEN UpperCase[IndexOf(LowerCase, c)] ELSE c
DigitVal(c) == IndexOf(DigitChars, c) - 1

\* the value of a character as unsigned char (ASCII), which std::string's
\* operator< compares
Ord(c) ==
  IF InSeq(DigitChars, c) THEN 47 + IndexOf(DigitChars, c)
  ELSE IF InSeq(UpperCase, c) THEN 64 + IndexOf(UpperCase, c)
  ELSE IF InSeq(LowerCase, c) THEN 96 + IndexOf(LowerCase, c)
  ELSE CASE c = "\t" -> 9
         [] c = "\n" -> 10
         [] c = "\r" -> 13
         [] c = " "  -> 32
         [] c = "\"" -> 34
         [] c = "+"  -> 43
         [] c = ","  -> 44
         [] c = "-"  -> 45
         [] c = "."  -> 46
         [] c = ":"  -> 58
         [] c = "_"  -> 95

\* --------------------------------------------------------- string helpers
\* positions are 0-based as in the source; npos is -1
npos == -1

\* s.find(c, from)
RECURSIVE Find(_, _, _)
Find(s, c, from) ==
  IF from >= Len(s) THEN npos
  ELSE IF s[from + 1] = c THEN from
  ELSE Find(s, c, from + 1)

\* s.find(needle) for a string needle
RECURSIVE FindStr(_, _, _)
FindStr(s, needle, from) ==
  IF from + Len(needle) > Len(s) THEN npos
  ELSE IF SubSeq(s, from + 1, from + Len(needle)) = needle THEN from
  ELSE FindStr(s, needle, from + 1)

\* s.substr(pos, n) and s.substr(pos)
Substr(s, pos, n) ==
  SubSeq(s, pos + 1, IF pos + n > Len(s) THEN Len(s) ELSE pos + n)
SubstrFrom(s, pos) == SubSeq(s, pos + 1, Len(s))

\* std::string::operator< : lexicographic on unsigned char
RECURSIVE StrLess(_, _)
StrLess(a, b) ==
  IF Len(b) = 0 THEN FALSE
  ELSE IF Len(a) = 0 THEN TRUE
  ELSE IF Ord(a[1]) # Ord(b[1]) THEN Ord(a[1]) < Ord(b[1])
  ELSE StrLess(Tail(a), Tail(b))

stripCR(s) ==
  IF Len(s) > 0 /\ s[Len(s)] = "\r" THEN SubSeq(s, 1, Len(s) - 1) ELSE s

RECURSIVE TrimBegin(_, _)
TrimBegin(s, b) ==
  IF b < Len(s) /\ isspace(s[b + 1]) THEN TrimBegin(s, b + 1) ELSE b
RECURSIVE TrimEnd(_, _, _)
TrimEnd(s, b, e) ==
  IF e > b /\ isspace(s[e]) THEN TrimEnd(s, b, e - 1) ELSE e
trimInPlace(s) ==
  LET b == TrimBegin(s, 0)
      e == TrimEnd(s, b, Len(s))
  IN  SubSeq(s, b + 1, e)

toUpperInPlace(s) == [i \in 1..Len(s) |-> toupper(s[i])]

TRIPID == <<"T","R","I","P","I","D">>

\* a parser's answer for one line: rejected, or the (zone, hour) to count
Rejected == [ok |-> FALSE, zone |-> <<>>, hour |-> -1]
Accepted(z, h) == [ok |-> TRUE, zone |-> z, hour |-> h]

\* ------------------------------------------------ src/analyzer.cpp parser
\* variant: a case-sensitive prefix test, line.rfind("TripID", 0) == 0
isHeaderLineStrict(line0) ==
  Len(line0) >= 6 /\ SubSeq(line0, 1, 6) = <<"T","r","i","p","I","D">>

\* isHeaderLine: first token up to the first comma, trimmed, upper-cased
isHeaderLine(line0) ==
  LET line == trimInPlace(line0)
      c == Find(line, ",", 0)
      first == IF c = npos THEN line ELSE Substr(line, 0, c)
  IN  IF Len(line) = 0 THEN FALSE
      ELSE toUpperInPlace(trimInPlace(first)) = TRIPID

\* variant: the h > 23 test is missing
parseHourFromDatetimeNoRange(dt0) ==
  LET dt == trimInPlace(dt0)
      colon == Find(dt, ":", 0)
  IN  IF Len(dt) < 4 THEN -1
      ELSE IF colon = npos THEN -1
      ELSE IF colon < 2 THEN -1
      ELSE LET h1 == dt[colon - 1]
               h2 == dt[colon]
           IN  IF ~isdigit(h1) \/ ~isdigit(h2) THEN -1
               ELSE DigitVal(h1) * 10 + DigitVal(h2)

\* parseHourFromDatetime: the two characters before the first ':'
\* (-1 stands for the function returning false)
parseHourFromDatetime(dt0) ==
  LET dt == trimInPlace(dt0)
      colon == Find(dt, ":", 0)
  IN  IF Len(dt) < 4 THEN -1
      ELSE IF colon = npos THEN -1
      ELSE IF colon < 2 THEN -1
      ELSE LET h1 == dt[colon - 1]
               h2 == dt[colon]
           IN  IF ~isdigit(h1) \/ ~isdigit(h2) THEN -1
               ELSE LET h == DigitVal(h1) * 10 + DigitVal(h2)
                    IN  IF h < 0 \/ h > 23 THEN -1 ELSE h

\* readField: the field [pos..comma) and the position after the comma
readField(line, pos, allowEnd) ==
  LET comma == Find(line, ",", pos)
  IN  IF pos > Len(line) THEN [ok |-> FALSE, out |-> <<>>, pos |-> pos]
      ELSE IF comma = npos
        THEN IF ~allowEnd THEN [ok |-> FALSE, out |-> <<>>, pos |-> pos]
             ELSE [ok |-> TRUE, out |-> SubstrFrom(line, pos), pos |-> Len(line) + 1]
      ELSE [ok |-> TRUE, out |-> Substr(line, pos, comma - pos), pos |-> comma + 1]

\* variant: the empty-zone test is missing
ValidateAnalyzerNoZoneCheck(zoneField, dtField) ==
  LET pickupZone == trimInPlace(zoneField)
      hour == parseHourFromDatetime(trimInPlace(dtField))
  IN  IF hour = -1 THEN Rejected
      ELSE Accepted(toUpperInPlace(pickupZone), hour)

\* variant: the zone is trimmed but not upper-cased
ValidateAnalyzerNoUpper(zoneField, dtField) ==
  LET pickupZone == trimInPlace(zoneField)
      hour == parseHourFromDatetime(trimInPlace(dtField))
  IN  IF Len(pickupZone) = 0 THEN Rejected
      ELSE IF hour = -1 THEN Rejected
      ELSE Accepted(pickupZone, hour)

\* validation of the zone and timestamp fields, shared by ingestFile's tail
\* (analyzer.cpp 133-141): trim, reject empty zone, upper-case, parse hour
ValidateAnalyzer(zoneField, dtField) ==
  LET pickupZone == trimInPlace(zoneField)
      hour == parseHourFromDatetime(trimInPlace(dtField))
  IN  IF Len(pickupZone) = 0 THEN Rejected
      ELSE IF hour = -1 THEN Rejected
      ELSE Accepted(toUpperInPlace(pickupZone), hour)

\* the body of ingestFile's loop from the first readField to the hour check
ParseLineAnalyzer(line) ==
  LET r1 == readField(line, 0, FALSE)
      r2 == readField(line, r1.pos, FALSE)
      r3 == readField(line, r2.pos, FALSE)
      r4 == readField(line, r3.pos, FALSE)
      r5 == readField(line, r4.pos, FALSE)
      r6 == readField(line, r5.pos, TRUE)
  IN  IF ~r1.ok THEN Rejected
      ELSE IF ~r2.ok THEN Rejected
      ELSE IF ~r3.ok THEN Rejected
      ELSE IF ~r4.ok THEN Rejected
      ELSE IF ~r5.ok THEN Rejected
      ELSE IF ~r6.ok THEN Rejected
      ELSE ValidateAnalyzer(r2.out, r4.out)

\* ------------------------------------ src/unnamed/part_000 (176-427) parser
\* variant: a quote inside quotes always closes them, doubled or not
RECURSIVE CSVScanNoDouble(_, _, _, _, _)
CSVScanNoDouble(line, i, field, inQuotes, fields) ==
  IF i >= Len(line)
    THEN IF Len(field) # 0 \/ inQuotes THEN Append(fields, field) ELSE fields
  ELSE LET ch == line[i + 1] IN
    IF ~inQuotes /\ ch = ","
      THEN CSVScanNoDouble(line, i + 1, <<>>, inQuotes, Append(fields, field))
    ELSE IF ch = "\""
      THEN CSVScanNoDouble(line, i + 1, field, ~inQuotes, fields)
    ELSE CSVScanNoDouble(line, i + 1, Append(field, ch), inQuotes, fields)

\* parseCSVLine: split at commas outside quotes; "" inside quotes is one "
RECURSIVE CSVScan(_, _, _, _, _)
CSVScan(line, i, field, inQuotes, fields) ==
  IF i >= Len(line)
    THEN IF Len(field) # 0 \/ inQuotes THEN Append(fields, field) ELSE fields
  ELSE LET ch == line[i + 1] IN
    IF ~inQuotes /\ ch = ","
      THEN CSVScan(line, i + 1, <<>>, inQuotes, Append(fields, field))
    ELSE IF ch = "\""
      THEN IF ~inQuotes THEN CSVScan(line, i + 1, field, TRUE, fields)
           ELSE IF i + 1 < Len(line) /\ line[i + 2] = "\""
             THEN CSVScan(line, i + 2, Append(field, "\""), inQuotes, fields)
           ELSE CSVScan(line, i + 1, field, FALSE, fields)
    ELSE CSVScan(line, i + 1, Append(field, ch), inQuotes, fields)

parseCSVLine(line) == CSVScan(line, 0, <<>>, FALSE, <<>>)

\* variant: the first field is upper-cased but not trimmed
isHeaderLineCSVNoTrim(line) ==
  LET fields == parseCSVLine(line)
  IN  IF Len(fields) = 0 THEN FALSE
      ELSE toUpperInPlace(fields[1]) = TRIPID

isHeaderLineCSV(line) ==
  LET fields == parseCSVLine(line)
  IN  IF Len(fields) = 0 THEN FALSE
      ELSE toUpperInPlace(trimInPlace(fields[1])) = TRIPID

\* start of the digit run that ends at position end (0-based)
RECURSIVE HourStart(_, _)
HourStart(dt, start) ==
  IF start > 0 /\ isdigit(dt[start]) THEN HourStart(dt, start - 1) ELSE start

\* std::stoi of a string already known to be one or two digits
RECURSIVE DigitsValue(_)
DigitsValue(s) ==
  IF Len(s) = 0 THEN 0
  ELSE DigitsValue(SubSeq(s, 1, Len(s) - 1)) * 10 + DigitVal(s[Len(s)])

\* variant: with PM, 12 is added to 12 o'clock as well
parseHourFromDatetimeAmPmNoNoon(dt0) ==
  LET dt == trimInPlace(dt0)
      colon == Find(dt, ":", 0)
  IN  IF Len(dt) = 0 THEN -1
      ELSE IF colon = npos THEN -1
      ELSE IF colon = 0 THEN -1
      ELSE LET end == colon - 1
               start == HourStart(dt, end)
               hStr == Substr(dt, start, end - start + 1)
           IN  IF Len(hStr) = 0 \/ Len(hStr) > 2 THEN -1
               ELSE IF \E i \in 1..Len(hStr) : ~isdigit(hStr[i]) THEN -1
               ELSE LET h == DigitsValue(hStr)
                        dtUpper == toUpperInPlace(dt)
                        hasAm == FindStr(dtUpper, <<"A","M">>, 0) # npos
                        hasPm == FindStr(dtUpper, <<"P","M">>, 0) # npos
                    IN  IF hasAm \/ hasPm
                          THEN IF h < 1 \/ h > 12 THEN -1
                               ELSE IF hasPm THEN h + 12
                               ELSE (IF h = 12 THEN 0 ELSE h)
                        ELSE IF h < 0 \/ h > 23 THEN -1 ELSE h

\* parseHourFromDatetime, AM/PM-aware: 1-2 digits before the first ':'
parseHourFromDatetimeAmPm(dt0) ==
  LET dt == trimInPlace(dt0)
      colon == Find(dt, ":", 0)
  IN  IF Len(dt) = 0 THEN -1
      ELSE IF colon = npos THEN -1
      ELSE IF colon = 0 THEN -1
      ELSE LET end == colon - 1
               start == HourStart(dt, end)
               hStr == Substr(dt, start, end - start + 1)
           IN  IF Len(hStr) = 0 \/ Len(hStr) > 2 THEN -1
               ELSE IF \E i \in 1..Len(hStr) : ~isdigit(hStr[i]) THEN -1
               ELSE LET h == DigitsValue(hStr)
                        dtUpper == toUpperInPlace(dt)
                        hasAm == FindStr(dtUpper, <<"A","M">>, 0) # npos
                        hasPm == FindStr(dtUpper, <<"P","M">>, 0) # npos
                    IN  IF hasAm \/ hasPm
                          THEN IF h < 1 \/ h > 12 THEN -1
                               ELSE IF hasPm THEN (IF h # 12 THEN h + 12 ELSE h)
                               ELSE (IF h = 12 THEN 0 ELSE h)
                        ELSE IF h < 0 \/ h > 23 THEN -1 ELSE h

\* the body of ingestFile's loop from parseCSVLine to the hour check
ParseLineCSV(line) ==
  LET fields == parseCSVLine(line)
  IN  IF Len(fields) < 6 THEN Rejected
      ELSE LET pickupZone == trimInPlace(fields[2])
               hour == parseHourFromDatetimeAmPm(trimInPlace(fields[4]))
           IN  IF Len(pickupZone) = 0 THEN Rejected
               ELSE IF hour = -1 THEN Rejected
               ELSE Accepted(toUpperInPlace(pickupZone), hour)

\* --------------------------------------- src/khanapi.kazavatov.cpp parser
\* while (getline(ss, cell, ',')) cols.push_back(cell): an empty piece after
\* the last comma is not extracted
RECURSIVE SplitCells(_, _, _)
SplitCells(s, from, cols) ==
  IF from >= Len(s) THEN cols
  ELSE LET comma == Find(s, ",", from)
       IN  IF comma = npos THEN Append(cols, SubstrFrom(s, from))
           ELSE SplitCells(s, comma + 1, Append(cols, Substr(s, from, comma - from)))

RECURSIVE DigitRunEnd(_, _)
DigitRunEnd(s, i) ==
  IF i < Len(s) /\ isdigit(s[i + 1]) THEN DigitRunEnd(s, i + 1) ELSE i

\* std::stoi: leading whitespace, an optional sign, then the digit run;
\* ok is FALSE where stoi throws std::invalid_argument
stoi(s) ==
  LET b == TrimBegin(s, 0)
      signed == b < Len(s) /\ s[b + 1] \in {"+", "-"}
      d == IF signed THEN b + 1 ELSE b
      e == DigitRunEnd(s, d)
      mag == DigitsValue(SubSeq(s, d + 1, e))
  IN  IF e = d THEN [ok |-> FALSE, val |-> 0]
      ELSE [ok |-> TRUE, val |-> IF signed /\ s[b + 1] = "-" THEN 0 - mag ELSE mag]

\* TripAnalyzer::parseHour: characters 11 and 12 of the timestamp
parseHour(datetime) ==
  IF Len(datetime) < 13 THEN -1
  ELSE LET r == stoi(Substr(datetime, 11, 2))
       IN  IF ~r.ok THEN -1
           ELSE IF r.val >= 0 /\ r.val <= 23 THEN r.val ELSE -1

\* the body of ingestStdin's loop up to the hour check; the zone is used raw
ParseLineStdin(line) ==
  LET cols == SplitCells(line, 0, <<>>)
  IN  IF Len(cols) < 6 THEN Rejected
      ELSE IF Len(cols[2]) = 0 \/ Len(cols[4]) = 0 THEN Rejected
      ELSE LET hour == parseHour(cols[4])
           IN  IF hour = -1 THEN Rejected ELSE Accepted(cols[2], hour)

\* ------------------------------------------- src/unnamed/part_001 parser
\* isHeaderLine: line.rfind("TripID", 0) == 0
isHeaderLinePrefix(line) ==
  Len(line) >= 6 /\ Substr(line, 0, 6) = <<"T","r","i","p","I","D">>

\* parseHour(line, start, end, hourOut): the two characters after the first
\* space at or after start
parseHourAfterSpace(line, start, end) ==
  LET sp == Find(line, " ", start)
  IN  IF sp = npos \/ sp + 2 >= end THEN -1
      ELSE LET h1 == line[sp + 2]
               h2 == line[sp + 3]
           IN  IF ~isdigit(h1) \/ ~isdigit(h2) THEN -1
               ELSE LET h == DigitVal(h1) * 10 + DigitVal(h2)
                    IN  IF h < 0 \/ h > 23 THEN -1 ELSE h

\* the body of ingestFile's loop from the first find(',') to the hour check:
\* exactly five commas, the zone taken as it stands
ParseLineFiveCommas(line) ==
  LET c1 == Find(line, ",", 0)
      c2 == IF c1 = npos THEN npos ELSE Find(line, ",", c1 + 1)
      c3 == IF c2 = npos THEN npos ELSE Find(line, ",", c2 + 1)
      c4 == IF c3 = npos THEN npos ELSE Find(line, ",", c3 + 1)
      c5 == IF c4 = npos THEN npos ELSE Find(line, ",", c4 + 1)
  IN  IF c5 = npos THEN Rejected
      ELSE IF Find(line, ",", c5 + 1) # npos THEN Rejected
      ELSE IF c2 <= c1 + 1 THEN Rejected
      ELSE IF c4 <= c3 + 1 THEN Rejected
      ELSE LET zone == Substr(line, c1 + 1, c2 - (c1 + 1))
               hour == parseHourAfterSpace(line, c3 + 1, c4)
           IN  IF hour = -1 THEN Rejected ELSE Accepted(zone, hour)

\* ------------------------------------------------------- input catalogue
\* the fields the input lines are built from
Id1 == <<"T","1">>
IdHeader == <<"T","r","i","p","I","D">>
IdHeaderLoose == <<" ","t","r","i","p","i","d"," ">>
IdGarbage == <<"g","a","r","b","a","g","e">>
ZoneMixed == <<"Z","a">>
ZoneUpper == <<"Z","A">>
ZonePadded == <<" ","z","a"," ">>
ZoneB == <<"Z","B">>
ZoneShort == <<"Z">>
ZoneBlank == <<" "," ">>
Empty == <<>>
Drop == <<"Z","C">>
Ts0815 == <<"2","0","2","4","-","0","1","-","0","1"," ","0","8",":","1","5">>
Ts2359 == <<"2","0","2","4","-","0","1","-","0","1"," ","2","3",":","5","9">>
TsIso08 == <<"2","0","2","4","-","0","1","-","0","1","T","0","8",":","1","5",":","3","0">>
TsHour24 == <<"2","0","2","4","-","0","1","-","0","1"," ","2","4",":","0","0">>
TsNoColon == <<"2","0","2","4","-","0","1","-","0","1">>
Dist == <<"3",".","2">>
Fare == <<"1","2",".","5","0">>
FareCR == <<"1","2",".","5","0","\r">>
Extra == <<"x">>

RECURSIVE Join(_)
Join(fs) ==
  IF Len(fs) = 0 THEN <<>>
  ELSE IF Len(fs) = 1 THEN fs[1]
  ELSE fs[1] \o <<",">> \o Join(Tail(fs))

\* the records the input is drawn from, each as its list of fields
Catalogue ==
  << <<Id1, ZoneMixed, Drop, Ts0815, Dist, Fare>>,
     <<Id1, ZonePadded, Drop, Ts0815, Dist, Fare>>,
     <<Id1, ZoneUpper, Drop, Ts2359, Dist, FareCR>>,
     <<Id1, ZoneB, Drop, Ts2359, Dist, Fare, Extra>>,
     <<Id1, ZoneShort, Drop, TsIso08, Dist, Fare>>,
     <<IdGarbage, Empty, Empty, Empty, Empty, Empty>>,
     <<Id1, ZoneB, Drop, Ts0815>>,
     <<Id1, ZoneBlank, Drop, Ts0815, Dist, Fare>>,
     <<Id1, ZoneB, Drop, TsHour24, Dist, Fare>>,
     <<Id1, ZoneB, Drop, TsNoColon, Dist, Fare>>,
     <<IdHeader, ZoneB, Drop, Ts0815, Dist, Fare>>,
     <<IdHeaderLoose, ZoneUpper, Drop, Ts2359, Dist, Fare>>,
     <<>>,
     <<Id1, ZoneB, Drop, Ts0815, Dist, Empty>> >>

LineIds == 1..Len(Catalogue)
\* the text of each line as std::getline returns it
LineText == [i \in LineIds |-> Join(Catalogue[i])]

\* the inputs a run can be given: a path that cannot be opened, and four
\* files, each holding any sequence of at most MaxLines of its lines
MissingPath == "missing.csv"
FileLines ==
  [p \in {"trips.csv", "dirty.csv", "header.csv", "extra.csv"} |->
     CASE p = "trips.csv"  -> {1, 2, 3, 4, 5}
       [] p = "dirty.csv"  -> {1, 6, 7, 8, 9, 10}
       [] p = "header.csv" -> {1, 4, 11, 12, 13}
       [] p = "extra.csv"  -> {4, 14}]
Paths == DOMAIN FileLines

\* ------------------------------------------------------------------ state
\* the one TripAnalyzer object of a run; the file-ingesting variants key
\* their process-wide tables by its address
Instances == {"t1"}
FileImpls == {"analyzer", "part000"}
Impls == FileImpls \cup {"khanapi"}

VARIABLES
  impl,              \* which implementation is linked into the program
  g_zoneTrips,       \* instance -> (zone -> count)
  g_zoneHourTrips,   \* instance -> (zone -> array of 24 counts)
  zoneCount,         \* khanapi: zone -> count
  zoneHourCount,     \* khanapi: zone -> (hour -> count)
  pc,                \* "idle", "loop" (inside the getline loop), "done"
  csvPath,           \* the input of the current ingestion run
  isOpen,            \* in.is_open() of the current ingestion run
  firstLineChecked,  \* analyzer.cpp's local of that name
  read,              \* catalogue ids of the lines getline has returned this run
  out,               \* the vector the caller holds from its last ranking query
  heldData,          \* history: the instance's tallies were non-empty when the
                     \* current ingestion run began
  ZONE_ingestFile,   \* part_001: the static ZONE declared inside ingestFile
  ZONEH_ingestFile,  \* part_001: the static ZONEH declared inside ingestFile
  ZONE_topZones,     \* part_001: the static ZONE declared inside topZones
  ZONEH_topBusySlots,\* part_001: the static ZONEH declared inside topBusySlots
  isFirst,           \* part_001: ingestFile's local `first`
  callArg,           \* the argument of the last direct call of a parsing helper
  callRet            \* what that call returned

part001Vars == <<ZONE_ingestFile, ZONEH_ingestFile, ZONE_topZones, ZONEH_topBusySlots, isFirst>>
callVars == <<callArg, callRet>>
vars == <<impl, g_zoneTrips, g_zoneHourTrips, zoneCount, zoneHourCount,
          pc, csvPath, isOpen, firstLineChecked, read, out, heldData,
          part001Vars, callVars>>

EmptyMap == [x \in {} |-> 0]
Put(m, k, v) == [x \in DOMAIN m \cup {k} |-> IF x = k THEN v ELSE m[x]]
Hours == 0..(NumHours - 1)

NoOut == [op |-> "none", k |-> 0, v |-> <<>>, err |-> "none"]

\* ------------------------------------------------------------ aggregation
\* zoneTrips[pickupZone]++
AcceptTotal(zoneTrips, zone) ==
  Put(zoneTrips, zone, IF zone \in DOMAIN zoneTrips THEN zoneTrips[zone] + 1 ELSE 1)

\* variant: an existing zone's slot is set to 1 instead of incremented
AcceptHourOverwrite(zoneHour, zone, hour) ==
  IF zone \notin DOMAIN zoneHour
    THEN Put(zoneHour, zone, [h \in Hours |-> IF h = hour THEN 1 ELSE 0])
    ELSE Put(zoneHour, zone, [zoneHour[zone] EXCEPT ![hour] = 1])

\* find / emplace a zero-filled array with arr[hour] = 1 / it->second[hour]++
AcceptHour(zoneHour, zone, hour) ==
  IF zone \notin DOMAIN zoneHour
    THEN Put(zoneHour, zone, [h \in Hours |-> IF h = hour THEN 1 ELSE 0])
    ELSE Put(zoneHour, zone, [zoneHour[zone] EXCEPT ![hour] = @ + 1])

\* khanapi: zoneHourCount[zone][hour]++ on nested unordered_maps
AcceptHourSparse(zhc, zone, hour) ==
  LET inner == IF zone \in DOMAIN zhc THEN zhc[zone] ELSE EmptyMap
  IN  Put(zhc, zone,
          Put(inner, hour, IF hour \in DOMAIN inner THEN inner[hour] + 1 ELSE 1))

\* what one iteration of the getline loop does with a line:
\* "empty" and "header" and "rejected" all `continue`
LoopBodyAnalyzer(raw) ==
  LET line == stripCR(raw)
      p == ParseLineAnalyzer(line)
  IN  IF Len(line) = 0 THEN [kind |-> "empty", zone |-> <<>>, hour |-> -1]
      ELSE IF isHeaderLine(line) THEN [kind |-> "header", zone |-> <<>>, hour |-> -1]
      ELSE IF ~p.ok THEN [kind |-> "rejected", zone |-> <<>>, hour |-> -1]
      ELSE [kind |-> "accepted", zone |-> p.zone, hour |-> p.hour]

LoopBodyCSV(raw) ==
  LET line == stripCR(raw)
      p == ParseLineCSV(line)
  IN  IF Len(line) = 0 THEN [kind |-> "empty", zone |-> <<>>, hour |-> -1]
      ELSE IF isHeaderLineCSV(line) THEN [kind |-> "header", zone |-> <<>>, hour |-> -1]
      ELSE IF ~p.ok THEN [kind |-> "rejected", zone |-> <<>>, hour |-> -1]
      ELSE [kind |-> "accepted", zone |-> p.zone, hour |-> p.hour]

LoopBodyStdin(raw) ==
  LET p == ParseLineStdin(raw)
  IN  IF ~p.ok THEN [kind |-> "rejected", zone |-> <<>>, hour |-> -1]
      ELSE [kind |-> "accepted", zone |-> p.zone, hour |-> p.hour]

\* the loop body applied to every catalogue line, per implementation
Outcome ==
  [m \in Impls |-> [i \in LineIds |->
     CASE m = "analyzer" -> LoopBodyAnalyzer(LineText[i])
       [] m = "part000"  -> LoopBodyCSV(LineText[i])
       [] m = "khanapi"  -> LoopBodyStdin(LineText[i])]]

\* part_001: the header test is made on the first non-empty line only
LoopBodyFiveCommas(raw, isFirstLine) ==
  LET line == stripCR(raw)
      p == ParseLineFiveCommas(line)
  IN  IF Len(line) = 0 THEN [kind |-> "empty", zone |-> <<>>, hour |-> -1]
      ELSE IF isFirstLine /\ isHeaderLinePrefix(line)
        THEN [kind |-> "header", zone |-> <<>>, hour |-> -1]
      ELSE IF ~p.ok THEN [kind |-> "rejected", zone |-> <<>>, hour |-> -1]
      ELSE [kind |-> "accepted", zone |-> p.zone, hour |-> p.hour]

OutcomeFiveCommas ==
  [f \in BOOLEAN |-> [i \in LineIds |-> LoopBodyFiveCommas(LineText[i], f)]]

\* ----------------------------------------------------------------- ranker
\* ZoneCount {zone, count}; SlotCount {zone, hour, count}
ZoneEntry(z, c) == [zone |-> z, count |-> c]
SlotEntry(z, h, c) == [zone |-> z, hour |-> h, count |-> c]

\* variant: the comparator orders by count alone
cmpZoneNoTie(a, b) == a.count > b.count

\* the comparator lambdas of topZones and topBusySlots
cmpZone(a, b) ==
  IF a.count # b.count THEN a.count > b.count ELSE StrLess(a.zone, b.zone)
cmpSlot(a, b) ==
  IF a.count # b.count THEN a.count > b.count
  ELSE IF a.zone # b.zone THEN StrLess(a.zone, b.zone)
  ELSE a.hour < b.hour
cmp(which, a, b) == IF which = "zone" THEN cmpZone(a, b) ELSE cmpSlot(a, b)

\* std::sort on a short range: insertion sort under cmp
RECURSIVE InsertSorted(_, _, _)
InsertSorted(which, s, x) ==
  IF Len(s) = 0 THEN <<x>>
  ELSE IF cmp(which, x, s[Len(s)])
    THEN Append(InsertSorted(which, SubSeq(s, 1, Len(s) - 1), x), s[Len(s)])
  ELSE Append(s, x)
RECURSIVE SortFrom(_, _, _, _)
SortFrom(which, v, i, acc) ==
  IF i > Len(v) THEN acc
  ELSE SortFrom(which, v, i + 1, InsertSorted(which, acc, v[i]))
Sort(which, v) == SortFrom(which, v, 1, <<>>)

\* std::partial_sort(first, first + k, last) then resize(k): keep the k best
\* seen so far, replacing the worst kept entry by a better one, then order
\* the kept entries
WorstIndex(which, buf) ==
  CHOOSE w \in 1..Len(buf) :
    \A j \in 1..Len(buf) : j = w \/ ~cmp(which, buf[w], buf[j])
\* variant: only the first k candidates are ever looked at
HeapSelectNoScan(which, v, i, buf) == buf

RECURSIVE HeapSelect(_, _, _, _)
HeapSelect(which, v, i, buf) ==
  IF i > Len(v) THEN buf
  ELSE LET w == WorstIndex(which, buf)
       IN  IF cmp(which, v[i], buf[w])
             THEN HeapSelect(which, v, i + 1, [buf EXCEPT ![w] = v[i]])
             ELSE HeapSelect(which, v, i + 1, buf)
PartialSortResize(which, v, k) ==
  Sort(which, HeapSelect(which, v, k + 1, SubSeq(v, 1, k)))

\* if ((int)v.size() > k) partial_sort + resize else sort
RankVector(which, v, k) ==
  IF Len(v) > k THEN PartialSortResize(which, v, k) ELSE Sort(which, v)

\* the orders in which an unordered container may be iterated
Orders(S) ==
  {p \in [1..Cardinality(S) -> S] : \A i, j \in 1..Cardinality(S) : p[i] = p[j] => i = j}

RECURSIVE HourSlots(_, _, _)
HourSlots(zone, arr, h) ==
  IF h >= NumHours THEN <<>>
  ELSE (IF arr[h] > 0 THEN <<SlotEntry(zone, h, arr[h])>> ELSE <<>>)
       \o HourSlots(zone, arr, h + 1)

\* the candidate vector of topZones for a given iteration order of the map
ZoneCandidates(zoneTrips, order) ==
  [i \in 1..Len(order) |-> ZoneEntry(order[i], zoneTrips[order[i]])]

\* the candidate vector of topBusySlots: zones in iteration order, the hours
\* of a zone in array order, only counts > 0
RECURSIVE SlotCandidates(_, _, _)
SlotCandidates(zoneHour, order, i) ==
  IF i > Len(order) THEN <<>>
  ELSE HourSlots(order[i], zoneHour[order[i]], 0) \o SlotCandidates(zoneHour, order, i + 1)

\* khanapi: both levels are unordered_maps, so any order of the pairs
SparseSlots(zhc) ==
  {SlotEntry(zh[1], zh[2], zhc[zh[1]][zh[2]]) :
     zh \in {x \in (DOMAIN zhc) \X Hours : x[2] \in DOMAIN zhc[x[1]]}}

\* ----------------------------------------------------------------- actions
KValues == {-5, 0} \cup 1..MaxK

NoCall == [fn |-> "none"]

\* the program before main's first statement: every table empty
Started ==
  /\ g_zoneTrips = EmptyMap
  /\ g_zoneHourTrips = EmptyMap
  /\ zoneCount = EmptyMap
  /\ zoneHourCount = EmptyMap
  /\ pc = "idle"
  /\ csvPath = MissingPath
  /\ isOpen = FALSE
  /\ firstLineChecked = FALSE
  /\ read = <<>>
  /\ out = NoOut
  /\ heldData = FALSE
  /\ ZONE_ingestFile = EmptyMap
  /\ ZONEH_ingestFile = EmptyMap
  /\ ZONE_topZones = EmptyMap
  /\ ZONEH_topBusySlots = EmptyMap
  /\ isFirst = TRUE
  /\ callArg = NoCall
  /\ callRet = NoCall

Init ==
  /\ impl \in Impls
  /\ Started

\* ingestFile up to the is_open test: g_zoneTrips[this] and
\* g_zoneHourTrips[this] are created if absent and cleared
\* variants: the entry is created but an existing one is not cleared
ClearedTripsKeep(this) ==
  IF this \in DOMAIN g_zoneTrips THEN g_zoneTrips ELSE Put(g_zoneTrips, this, EmptyMap)
ClearedHoursKeep(this) ==
  IF this \in DOMAIN g_zoneHourTrips THEN g_zoneHourTrips
  ELSE Put(g_zoneHourTrips, this, EmptyMap)

ClearedTrips(this) == Put(g_zoneTrips, this, EmptyMap)
ClearedHours(this) == Put(g_zoneHourTrips, this, EmptyMap)

IngestFileBegin(this, path, opens) ==
  /\ impl \in FileImpls
  /\ pc \in {"idle", "done"}
  /\ out = NoOut
  /\ csvPath' = path
  /\ g_zoneTrips' = ClearedTrips(this)
  /\ g_zoneHourTrips' = ClearedHours(this)
  /\ isOpen' = opens
  /\ pc' = IF opens THEN "loop" ELSE "done"
  /\ firstLineChecked' = FALSE
  /\ read' = <<>>
  /\ heldData' = (this \in DOMAIN g_zoneTrips /\ g_zoneTrips[this] # EmptyMap)
  /\ UNCHANGED <<part001Vars, callVars, impl, zoneCount, zoneHourCount, out>>

IngestFileMissing(this) == IngestFileBegin(this, MissingPath, FALSE)
IngestFileOpened(this, path) == IngestFileBegin(this, path, TRUE)

\* one iteration of ingestFile's while (std::getline(in, line)) loop
IngestFileLine(this, i) ==
  /\ impl \in FileImpls
  /\ pc = "loop"
  /\ Len(read) < MaxLines
  /\ i \in FileLines[csvPath]
  /\ read' = Append(read, i)
  /\ LET o == Outcome[impl][i] IN
       /\ firstLineChecked' =
            IF impl = "analyzer" /\ o.kind # "empty" THEN TRUE ELSE firstLineChecked
       /\ IF o.kind = "accepted"
            THEN /\ g_zoneTrips' =
                      [g_zoneTrips EXCEPT ![this] = AcceptTotal(@, o.zone)]
                 /\ g_zoneHourTrips' =
                      [g_zoneHourTrips EXCEPT ![this] = AcceptHour(@, o.zone, o.hour)]
            ELSE UNCHANGED <<g_zoneTrips, g_zoneHourTrips>>
  /\ UNCHANGED <<part001Vars, callVars, impl, heldData, zoneCount, zoneHourCount, pc, csvPath, isOpen, out>>

\* getline fails at end of file and ingestFile returns
IngestFileEnd ==
  /\ impl \in FileImpls
  /\ pc = "loop"
  /\ pc' = "done"
  /\ UNCHANGED <<part001Vars, callVars, impl, heldData, g_zoneTrips, g_zoneHourTrips, zoneCount, zoneHourCount,
                 csvPath, isOpen, firstLineChecked, read, out>>

\* g_zoneTrips.find(this) / g_zoneHourTrips.find(this): a lookup inserts nothing
\* variant: g_zoneTrips[this] instead of find(this) creates the entry
TripsAfterIndex(this) ==
  IF this \in DOMAIN g_zoneTrips THEN g_zoneTrips ELSE Put(g_zoneTrips, this, EmptyMap)

TripsAfterFind(this) == g_zoneTrips
HoursAfterFind(this) == g_zoneHourTrips

Returned(op, k, v) == [op |-> op, k |-> k, v |-> v, err |-> "none"]

\* TripAnalyzer::topZones(k) const of the file-ingesting variants
TopZones(this, k) ==
  /\ impl \in FileImpls
  /\ pc \in {"idle", "done"}
  /\ out = NoOut
  /\ IF k <= 0
       THEN /\ out' = Returned("topZones", k, <<>>)
            /\ UNCHANGED g_zoneTrips
       ELSE /\ g_zoneTrips' = TripsAfterFind(this)
            /\ IF this \notin DOMAIN g_zoneTrips
                 THEN out' = Returned("topZones", k, <<>>)
                 ELSE \E order \in Orders(DOMAIN g_zoneTrips[this]) :
                        out' = Returned("topZones", k,
                                 RankVector("zone", ZoneCandidates(g_zoneTrips[this], order), k))
  /\ UNCHANGED <<part001Vars, callVars, impl, heldData, g_zoneHourTrips, zoneCount, zoneHourCount, pc, csvPath,
                 isOpen, firstLineChecked, read>>

\* TripAnalyzer::topBusySlots(k) const of the file-ingesting variants
TopBusySlots(this, k) ==
  /\ impl \in FileImpls
  /\ pc \in {"idle", "done"}
  /\ out = NoOut
  /\ IF k <= 0
       THEN /\ out' = Returned("topBusySlots", k, <<>>)
            /\ UNCHANGED g_zoneHourTrips
       ELSE /\ g_zoneHourTrips' = HoursAfterFind(this)
            /\ IF this \notin DOMAIN g_zoneHourTrips
                 THEN out' = Returned("topBusySlots", k, <<>>)
                 ELSE \E order \in Orders(DOMAIN g_zoneHourTrips[this]) :
                        out' = Returned("topBusySlots", k,
                          RankVector("slot",
                            SlotCandidates(g_zoneHourTrips[this], order, 1), k))
  /\ UNCHANGED <<part001Vars, callVars, impl, heldData, g_zoneTrips, zoneCount, zoneHourCount, pc, csvPath,
                 isOpen, firstLineChecked, read>>

\* ---------------------------------------------- khanapi: ingestStdin, main
\* the first getline fails: empty input
StdinEmpty ==
  /\ impl = "khanapi"
  /\ pc = "idle"
  /\ pc' = "done"
  /\ UNCHANGED <<part001Vars, callVars, impl, heldData, g_zoneTrips, g_zoneHourTrips, zoneCount, zoneHourCount,
                 csvPath, isOpen, firstLineChecked, read, out>>

\* the first getline succeeds: that line is dropped unread
StdinFirstLine(path, i) ==
  /\ impl = "khanapi"
  /\ pc = "idle"
  /\ i \in FileLines[path]
  /\ pc' = "loop"
  /\ csvPath' = path
  /\ read' = <<i>>
  /\ UNCHANGED <<part001Vars, callVars, impl, heldData, g_zoneTrips, g_zoneHourTrips, zoneCount, zoneHourCount,
                 isOpen, firstLineChecked, out>>

StdinLine(i) ==
  /\ impl = "khanapi"
  /\ pc = "loop"
  /\ Len(read) < MaxLines
  /\ i \in FileLines[csvPath]
  /\ read' = Append(read, i)
  /\ LET o == Outcome[impl][i] IN
       IF o.kind = "accepted"
         THEN /\ zoneCount' = AcceptTotal(zoneCount, o.zone)
              /\ zoneHourCount' = AcceptHourSparse(zoneHourCount, o.zone, o.hour)
         ELSE UNCHANGED <<zoneCount, zoneHourCount>>
  /\ UNCHANGED <<part001Vars, callVars, impl, heldData, g_zoneTrips, g_zoneHourTrips, pc, csvPath, isOpen,
                 firstLineChecked, out>>

StdinEnd ==
  /\ impl = "khanapi"
  /\ pc = "loop"
  /\ pc' = "done"
  /\ UNCHANGED <<part001Vars, callVars, impl, heldData, g_zoneTrips, g_zoneHourTrips, zoneCount, zoneHourCount,
                 csvPath, isOpen, firstLineChecked, read, out>>

\* sort everything, then if ((int)v.size() > k) v.resize(k): a negative k
\* converts to a size above max_size() and resize throws std::length_error
SortThenResize(op, which, v, k) ==
  LET sorted == Sort(which, v)
  IN  IF Len(sorted) > k
        THEN IF k < 0 THEN [op |-> op, k |-> k, v |-> <<>>, err |-> "length_error"]
             ELSE Returned(op, k, SubSeq(sorted, 1, k))
        ELSE Returned(op, k, sorted)

StdinTopZones(k) ==
  /\ impl = "khanapi"
  /\ pc = "done"
  /\ out = NoOut
  /\ \E order \in Orders(DOMAIN zoneCount) :
       out' = SortThenResize("topZones", "zone", ZoneCandidates(zoneCount, order), k)
  /\ UNCHANGED <<part001Vars, callVars, impl, heldData, g_zoneTrips, g_zoneHourTrips, zoneCount, zoneHourCount,
                 pc, csvPath, isOpen, firstLineChecked, read>>

StdinTopBusySlots(k) ==
  /\ impl = "khanapi"
  /\ pc = "done"
  /\ out = NoOut
  /\ \E order \in Orders(SparseSlots(zoneHourCount)) :
       out' = SortThenResize("topBusySlots", "slot", order, k)
  /\ UNCHANGED <<part001Vars, callVars, impl, heldData, g_zoneTrips, g_zoneHourTrips, zoneCount, zoneHourCount,
                 pc, csvPath, isOpen, firstLineChecked, read>>

\* the caller is done with the vector a query returned (main's range-for over
\* the temporary, at whose end the temporary is destroyed)
Consume ==
  /\ out # NoOut
  /\ out' = NoOut
  /\ UNCHANGED <<part001Vars, callVars, impl, heldData, g_zoneTrips, g_zoneHourTrips, zoneCount, zoneHourCount,
                 pc, csvPath, isOpen, firstLineChecked, read>>

Next ==
  \/ \E t \in Instances : IngestFileMissing(t)
  \/ \E t \in Instances, p \in Paths : IngestFileOpened(t, p)
  \/ \E t \in Instances, i \in LineIds : IngestFileLine(t, i)
  \/ IngestFileEnd
  \/ \E t \in Instances, k \in KValues : TopZones(t, k)
  \/ \E t \in Instances, k \in KValues : TopBusySlots(t, k)
  \/ StdinEmpty
  \/ \E p \in Paths, i \in LineIds : StdinFirstLine(p, i)
  \/ \E i \in LineIds : StdinLine(i)
  \/ StdinEnd
  \/ \E k \in KValues : StdinTopZones(k)
  \/ \E k \in KValues : StdinTopBusySlots(k)
  \/ Consume

Spec == Init /\ [][Next]_vars

\* ------------------------------------- the parsing helpers called directly
\* a run of this part makes one call of one helper on one argument
\* the timestamps handed to parseHourFromDatetime: a prefix, the hour number
\* written with w digits (none when w = 0), and a tail from the colon on
RECURSIVE Dec(_)
Dec(n) == IF n < 10 THEN <<DigitChars[n + 1]>> ELSE Dec(n \div 10) \o <<DigitChars[(n % 10) + 1]>>
RECURSIVE Pad(_, _)
Pad(s, w) == IF Len(s) >= w THEN s ELSE Pad(<<"0">> \o s, w)
HourText(h, w) == IF w = 0 THEN <<>> ELSE Pad(Dec(h), w)
HourTexts == {<<0, 0>>} \cup {hw \in (0..MaxHour) \X (1..MaxWidth) : Len(Dec(hw[1])) <= hw[2]}

PrefixSpace == <<"2","0","2","4","-","0","1","-","0","1"," ">>
PrefixT == <<"2","0","2","4","-","0","1","-","0","1","T">>
PrefixPm == <<"p","m"," ">>
DatePrefixes == {PrefixSpace, PrefixT, PrefixPm, <<>>}
TailPlain == <<":","0","5">>
TailSeconds == <<":","0","5",":","3","0">>
TailAM == <<":","0","5"," ","A","M">>
TailAm == <<":","0","5"," ","a","m">>
TailPM == <<":","0","5"," ","P","M">>
TailPm == <<":","0","5","p","m">>
Tails == {TailPlain, TailSeconds, TailAM, TailAm, TailPM, TailPm}

\* a direct call of the linked variant's parseHourFromDatetime(dt, hour)
CallParseHourFromDatetime(prefix, hw, tail) ==
  /\ impl \in FileImpls
  /\ callArg = NoCall
  /\ LET dt == prefix \o HourText(hw[1], hw[2]) \o tail
         r == IF impl = "analyzer" THEN parseHourFromDatetime(dt)
              ELSE parseHourFromDatetimeAmPm(dt)
     IN  /\ callArg' = [fn |-> "parseHourFromDatetime", prefix |-> prefix,
                        h |-> hw[1], w |-> hw[2], tail |-> tail, dt |-> dt]
         /\ callRet' = [fn |-> "parseHourFromDatetime", ok |-> r # -1, hour |-> r]
  /\ UNCHANGED <<part001Vars, impl, heldData, g_zoneTrips, g_zoneHourTrips, zoneCount,
                 zoneHourCount, pc, csvPath, isOpen, firstLineChecked, read, out>>

\* the lines handed to parseCSVLine: field values over a letter, the comma and
\* the quote, each written bare or enclosed in quotes with its quotes doubled
CsvChars == {"a", ",", "\""}
RECURSIVE SeqsUpTo(_, _)
SeqsUpTo(S, n) ==
  IF n = 0 THEN {<<>>}
  ELSE LET shorter == SeqsUpTo(S, n - 1)
       IN  shorter \cup {Append(v, c) : v \in shorter, c \in S}
FieldValues == SeqsUpTo(CsvChars, MaxFieldLen)
NeedsQuotes(v) == \E n \in 1..Len(v) : v[n] \in {",", "\""}
\* a field as written: [value, quoted]
WrittenFields == {vq \in FieldValues \X BOOLEAN : NeedsQuotes(vq[1]) => vq[2]}
\* lines of one field and of two
WrittenLines ==
  {<<w>> : w \in WrittenFields} \cup {<<w1, w2>> : w1 \in WrittenFields, w2 \in WrittenFields}

RECURSIVE DoubleQuotes(_)
DoubleQuotes(v) ==
  IF Len(v) = 0 THEN <<>>
  ELSE (IF v[1] = "\"" THEN <<"\"", "\"">> ELSE <<v[1]>>) \o DoubleQuotes(Tail(v))
WriteField(vq) == IF vq[2] THEN <<"\"">> \o DoubleQuotes(vq[1]) \o <<"\"">> ELSE vq[1]
WriteLine(ws) == Join([n \in 1..Len(ws) |-> WriteField(ws[n])])

\* a direct call of part_000's parseCSVLine(line)
CallParseCSVLine(ws) ==
  /\ impl = "part000"
  /\ callArg = NoCall
  /\ callArg' = [fn |-> "parseCSVLine", written |-> ws, line |-> WriteLine(ws)]
  /\ callRet' = [fn |-> "parseCSVLine", fields |-> parseCSVLine(WriteLine(ws))]
  /\ UNCHANGED <<part001Vars, impl, heldData, g_zoneTrips, g_zoneHourTrips, zoneCount,
                 zoneHourCount, pc, csvPath, isOpen, firstLineChecked, read, out>>

InitParse ==
  /\ impl \in FileImpls
  /\ Started

NextParse ==
  \/ \E prefix \in DatePrefixes, hw \in HourTexts, tail \in Tails :
       CallParseHourFromDatetime(prefix, hw, tail)
  \/ \E ws \in WrittenLines : CallParseCSVLine(ws)

SpecParse == InitParse /\ [][NextParse]_vars

\* ---------------------------- src/unnamed/part_001: function-local statics
\* ingestFile up to the is_open test, on the statics declared inside ingestFile
IngestFileBeginLocal(this, path, opens) ==
  /\ impl = "part001"
  /\ pc \in {"idle", "done"}
  /\ out = NoOut
  /\ csvPath' = path
  /\ ZONE_ingestFile' = Put(ZONE_ingestFile, this, EmptyMap)
  /\ ZONEH_ingestFile' = Put(ZONEH_ingestFile, this, EmptyMap)
  /\ isOpen' = opens
  /\ pc' = IF opens THEN "loop" ELSE "done"
  /\ isFirst' = TRUE
  /\ read' = <<>>
  /\ heldData' = (this \in DOMAIN ZONE_ingestFile /\ ZONE_ingestFile[this] # EmptyMap)
  /\ UNCHANGED <<callVars, impl, g_zoneTrips, g_zoneHourTrips, zoneCount, zoneHourCount,
                 firstLineChecked, out, ZONE_topZones, ZONEH_topBusySlots>>

IngestFileMissingLocal(this) == IngestFileBeginLocal(this, MissingPath, FALSE)
IngestFileOpenedLocal(this, path) == IngestFileBeginLocal(this, path, TRUE)

\* one iteration of its while (std::getline(in, line)) loop
IngestFileLineLocal(this, i) ==
  /\ impl = "part001"
  /\ pc = "loop"
  /\ Len(read) < MaxLines
  /\ i \in FileLines[csvPath]
  /\ read' = Append(read, i)
  /\ LET o == OutcomeFiveCommas[isFirst][i] IN
       /\ isFirst' = IF o.kind = "empty" THEN isFirst ELSE FALSE
       /\ IF o.kind = "accepted"
            THEN /\ ZONE_ingestFile' =
                      [ZONE_ingestFile EXCEPT ![this] = AcceptTotal(@, o.zone)]
                 /\ ZONEH_ingestFile' =
                      [ZONEH_ingestFile EXCEPT ![this] = AcceptHour(@, o.zone, o.hour)]
            ELSE UNCHANGED <<ZONE_ingestFile, ZONEH_ingestFile>>
  /\ UNCHANGED <<callVars, impl, heldData, g_zoneTrips, g_zoneHourTrips, zoneCount,
                 zoneHourCount, pc, csvPath, isOpen, firstLineChecked, out,
                 ZONE_topZones, ZONEH_topBusySlots>>

IngestFileEndLocal ==
  /\ impl = "part001"
  /\ pc = "loop"
  /\ pc' = "done"
  /\ UNCHANGED <<part001Vars, callVars, impl, heldData, g_zoneTrips, g_zoneHourTrips,
                 zoneCount, zoneHourCount, csvPath, isOpen, firstLineChecked, read, out>>

\* topZones(k) const: ZONE.find(this) on the static declared inside topZones
TopZonesLocal(this, k) ==
  /\ impl = "part001"
  /\ pc \in {"idle", "done"}
  /\ out = NoOut
  /\ IF this \notin DOMAIN ZONE_topZones \/ k <= 0
       THEN out' = Returned("topZones", k, <<>>)
       ELSE \E order \in Orders(DOMAIN ZONE_topZones[this]) :
              out' = Returned("topZones", k,
                       RankVector("zone", ZoneCandidates(ZONE_topZones[this], order), k))
  /\ UNCHANGED <<part001Vars, callVars, impl, heldData, g_zoneTrips, g_zoneHourTrips,
                 zoneCount, zoneHourCount, pc, csvPath, isOpen, firstLineChecked, read>>

\* topBusySlots(k) const: ZONEH.find(this) on the static declared inside topBusySlots
TopBusySlotsLocal(this, k) ==
  /\ impl = "part001"
  /\ pc \in {"idle", "done"}
  /\ out = NoOut
  /\ IF this \notin DOMAIN ZONEH_topBusySlots \/ k <= 0
       THEN out' = Returned("topBusySlots", k, <<>>)
       ELSE \E order \in Orders(DOMAIN ZONEH_topBusySlots[this]) :
              out' = Returned("topBusySlots", k,
                       RankVector("slot",
                         SlotCandidates(ZONEH_topBusySlots[this], order, 1), k))
  /\ UNCHANGED <<part001Vars, callVars, impl, heldData, g_zoneTrips, g_zoneHourTrips,
                 zoneCount, zoneHourCount, pc, csvPath, isOpen, firstLineChecked, read>>

InitLocal ==
  /\ impl = "part001"
  /\ Started

NextLocal ==
  \/ \E t \in Instances : IngestFileMissingLocal(t)
  \/ \E t \in Instances, p \in Paths : IngestFileOpenedLocal(t, p)
  \/ \E t \in Instances, i \in LineIds : IngestFileLineLocal(t, i)
  \/ IngestFileEndLocal
  \/ \E t \in Instances, k \in KValues : TopZonesLocal(t, k)
  \/ \E t \in Instances, k \in KValues : TopBusySlotsLocal(t, k)
  \/ Consume

SpecLocal == InitLocal /\ [][NextLocal]_vars

\* ================================================================= claims
This == CHOOSE t \in Instances : TRUE
Min(a, b) == IF a < b THEN a ELSE b
\* the instance's tally in a table; none when it has no entry
TalliesOf(table) == IF This \in DOMAIN table THEN table[This] ELSE EmptyMap

RECURSIVE SumHours(_, _)
SumHours(arr, h) == IF h >= NumHours THEN 0 ELSE arr[h] + SumHours(arr, h + 1)

\* C1: in the file-ingesting variants, at every point of an ingestion and after
\* it, the two tables hold the same instances, each instance's two tallies have
\* the same zone keys, and every zone's total is the sum of its 24 hour counts.
C1_TotalsMatchHourSums ==
  impl \in FileImpls =>
    /\ DOMAIN g_zoneTrips = DOMAIN g_zoneHourTrips
    /\ \A t \in DOMAIN g_zoneTrips :
         /\ DOMAIN g_zoneTrips[t] = DOMAIN g_zoneHourTrips[t]
         /\ \A z \in DOMAIN g_zoneTrips[t] :
              g_zoneTrips[t][z] = SumHours(g_zoneHourTrips[t][z], 0)

\* a finished ingestion in which one zone was counted again in an hour it
\* already had and also in a second hour
C1_Witness ==
  /\ impl \in FileImpls
  /\ pc = "done"
  /\ This \in DOMAIN g_zoneHourTrips
  /\ \E z \in DOMAIN g_zoneHourTrips[This] :
       \E h1, h2 \in Hours :
         /\ h1 # h2
         /\ g_zoneHourTrips[This][z][h1] >= 2
         /\ g_zoneHourTrips[This][z][h2] >= 1

\* the order the claims speak of, stated on the returned entries
ZoneBefore(a, b) ==
  \/ a.count > b.count
  \/ a.count = b.count /\ StrLess(a.zone, b.zone)
SlotBefore(a, b) ==
  \/ a.count > b.count
  \/ a.count = b.count /\ StrLess(a.zone, b.zone)
  \/ a.count = b.count /\ a.zone = b.zone /\ a.hour < b.hour

\* C2: for k >= 1 every vector topZones returns is strictly ordered by (count
\* descending, zone ascending) and every vector topBusySlots returns by (count
\* descending, zone ascending, hour ascending), whatever order the unordered
\* map was iterated in.
C2_StrictlyOrdered ==
  (out.op # "none" /\ out.k >= 1 /\ out.err = "none") =>
    \A i, j \in 1..Len(out.v) :
      i < j => IF out.op = "topZones" THEN ZoneBefore(out.v[i], out.v[j])
               ELSE SlotBefore(out.v[i], out.v[j])

\* a topZones result whose first two entries tie on count
C2_Witness ==
  /\ impl \in FileImpls
  /\ out.op = "topZones"
  /\ Len(out.v) >= 2
  /\ out.v[1].count = out.v[2].count

\* the candidates of a query, in one fixed iteration order
ZoneRows(zoneTrips) ==
  ZoneCandidates(zoneTrips, CHOOSE o \in Orders(DOMAIN zoneTrips) : TRUE)
SlotRows(zoneHour) ==
  SlotCandidates(zoneHour, CHOOSE o \in Orders(DOMAIN zoneHour) : TRUE, 1)
Truncated(sorted, k) == SubSeq(sorted, 1, Min(k, Len(sorted)))

\* what full sort followed by truncation to k gives on the instance's tallies
FullSortTopZones(zoneTrips, k) == Truncated(Sort("zone", ZoneRows(zoneTrips)), k)
FullSortTopSlots(zoneHour, k) == Truncated(Sort("slot", SlotRows(zoneHour)), k)

\* C3: for k >= 1 the vector a query of the file-ingesting variants returns is
\* the first min(k, n) entries of the fully sorted candidate list, also when
\* n > k and the partial-selection branch was taken.
C3_PartialEqualsFullSort ==
  (impl \in FileImpls /\ out.op # "none" /\ out.k >= 1) =>
    IF out.op = "topZones"
      THEN out.v = FullSortTopZones(TalliesOf(g_zoneTrips), out.k)
      ELSE out.v = FullSortTopSlots(TalliesOf(g_zoneHourTrips), out.k)

\* a topBusySlots(2) result taken from three candidate slots
C3_Witness ==
  /\ impl \in FileImpls
  /\ out.op = "topBusySlots"
  /\ out.k = 2
  /\ Len(out.v) = 2
  /\ Len(SlotRows(TalliesOf(g_zoneHourTrips))) = 3

\* C4 (as claimed): in every implementation, a query with k <= 0 returns an
\* empty vector and raises nothing, in every aggregate state.
C4_NonPositiveKReturnsEmpty ==
  (out.op # "none" /\ out.k <= 0) => (out.v = <<>> /\ out.err = "none")

\* C5: after ingestFile on a path that does not open, as after ingestFile on an
\* empty file, the instance has an entry in both tables, both tallies are
\* empty, and every query returns an empty vector.
C5_MissingFileLikeEmptyInput ==
  (impl \in FileImpls /\ pc = "done" /\ (~isOpen \/ read = <<>>)) =>
    /\ This \in DOMAIN g_zoneTrips /\ g_zoneTrips[This] = EmptyMap
    /\ This \in DOMAIN g_zoneHourTrips /\ g_zoneHourTrips[This] = EmptyMap
    /\ out.op # "none" => (out.v = <<>> /\ out.err = "none")

\* an instance that held data, then ingested a missing file, asked topZones(k >= 1)
C5_Witness ==
  /\ impl \in FileImpls
  /\ pc = "done"
  /\ ~isOpen
  /\ heldData
  /\ out.op = "topZones"
  /\ out.k >= 1

\* the kinds of input line, read off the fields a line was built from
Fields(i) == Catalogue[i]
IsBlank(f) == \A n \in 1..Len(f) : f[n] \in {" ", "\t"}
FewFields(i) == Len(Fields(i)) < 6
BlankZone(i) == Len(Fields(i)) >= 2 /\ IsBlank(Fields(i)[2])
GoodTimestamps == {Ts0815, Ts2359, TsIso08}
BadHour(i) == Len(Fields(i)) >= 4 /\ Fields(i)[4] \notin GoodTimestamps
Malformed(i) == FewFields(i) \/ BlankZone(i) \/ BadHour(i)
HeaderLike(i) == Len(Fields(i)) >= 1 /\ Fields(i)[1] \in {IdHeader, IdHeaderLoose}
EmptyLine(i) == LineText[i] = <<>>
WellFormed(i) == ~Malformed(i) /\ ~HeaderLike(i)

LineStep == pc = "loop" /\ Len(read') = Len(read) + 1
LastRead == read'[Len(read')]
TalliesUnchanged == UNCHANGED <<g_zoneTrips, g_zoneHourTrips>>
RECURSIVE SumCounts(_, _)
SumCounts(rows, n) == IF n = 0 THEN 0 ELSE rows[n].count + SumCounts(rows, n - 1)
\* the number of records a tally holds
TotalCounted(zoneTrips) == SumCounts(ZoneRows(zoneTrips), Len(ZoneRows(zoneTrips)))

\* C6: a loop iteration of ingestFile on a line with fewer than 6 fields, a
\* blank zone, or a timestamp with no hour or an hour out of range leaves both
\* tables as they were and stays in the loop.
C6_MalformedLineChangesNothing ==
  [][(impl \in FileImpls /\ LineStep /\ Malformed(LastRead))
       => (TalliesUnchanged /\ pc' = "loop")]_vars

\* a malformed first line followed by a well-formed line that was counted
C6_Witness ==
  /\ impl \in FileImpls
  /\ Len(read) >= 2
  /\ Malformed(read[1]) /\ ~EmptyLine(read[1])
  /\ WellFormed(read[2])
  /\ TotalCounted(g_zoneTrips[This]) = 1

SpellingsOfZA == {ZoneMixed, ZoneUpper, ZonePadded}
ReadOfZA == {j \in 1..Len(read) : WellFormed(read[j]) /\ Fields(read[j])[2] \in SpellingsOfZA}

\* C7: in the file-ingesting variants every key of the tallies is free of
\* surrounding whitespace and lower-case letters, and the records read so far
\* whose zone is spelled "Za", "ZA" or " za " are all counted under the one
\* key "ZA", with no entry under any other spelling.
C7_SpellingsFoldToOneKey ==
  (impl \in FileImpls /\ pc \in {"loop", "done"}) =>
    LET zt == g_zoneTrips[This] IN
      /\ \A z \in DOMAIN zt :
           /\ Len(z) > 0 /\ ~isspace(z[1]) /\ ~isspace(z[Len(z)])
           /\ \A n \in 1..Len(z) : ~InSeq(LowerCase, z[n])
      /\ IF ReadOfZA = {} THEN ZoneUpper \notin DOMAIN zt
         ELSE ZoneUpper \in DOMAIN zt /\ zt[ZoneUpper] = Cardinality(ReadOfZA)

\* three records, one per spelling, counted as ZA = 3
C7_Witness ==
  /\ impl \in FileImpls
  /\ pc = "done"
  /\ {Fields(read[j])[2] : j \in ReadOfZA} = SpellingsOfZA
  /\ g_zoneTrips[This][ZoneUpper] = 3

\* C8: a loop iteration on the first non-empty line of the input, when that
\* line's first field is "TripID" in any case and padding, changes neither
\* table, although the rest of the line is a valid record.
C8_HeaderFirstLineNotCounted ==
  [][(/\ impl \in FileImpls
      /\ LineStep
      /\ HeaderLike(LastRead) /\ ~Malformed(LastRead)
      /\ \A j \in 1..Len(read) : EmptyLine(read[j]))
       => TalliesUnchanged]_vars

\* an empty line, then a padded lower-case header, then a counted record
C8_Witness ==
  /\ impl \in FileImpls
  /\ Len(read) = 3
  /\ EmptyLine(read[1])
  /\ HeaderLike(read[2]) /\ ~Malformed(read[2]) /\ Fields(read[2])[1] = IdHeaderLoose
  /\ WellFormed(read[3])
  /\ TotalCounted(g_zoneTrips[This]) = 1

\* the tallies a fresh instance has after reading the given lines
RECURSIVE FreshTrips(_, _)
FreshTrips(lines, n) ==
  IF n = 0 THEN EmptyMap
  ELSE LET o == Outcome[impl][lines[n]]
           before == FreshTrips(lines, n - 1)
       IN  IF o.kind = "accepted" THEN AcceptTotal(before, o.zone) ELSE before
RECURSIVE FreshHours(_, _)
FreshHours(lines, n) ==
  IF n = 0 THEN EmptyMap
  ELSE LET o == Outcome[impl][lines[n]]
           before == FreshHours(lines, n - 1)
       IN  IF o.kind = "accepted" THEN AcceptHour(before, o.zone, o.hour) ELSE before

\* C9: during and after every ingestFile run the instance's tallies, and the
\* vectors queries return, are those of a fresh instance that read the same
\* lines, whatever the instance held before the run.
C9_RunStartsFromEmpty ==
  (impl \in FileImpls /\ pc \in {"loop", "done"}) =>
    /\ g_zoneTrips[This] = FreshTrips(read, Len(read))
    /\ g_zoneHourTrips[This] = FreshHours(read, Len(read))
    /\ (out.op = "topZones" /\ out.k >= 1) =>
         out.v = FullSortTopZones(FreshTrips(read, Len(read)), out.k)
    /\ (out.op = "topBusySlots" /\ out.k >= 1) =>
         out.v = FullSortTopSlots(FreshHours(read, Len(read)), out.k)

\* a second run on an instance that held data, queried after it counted records
C9_Witness ==
  /\ impl \in FileImpls
  /\ pc = "done"
  /\ heldData
  /\ isOpen
  /\ g_zoneHourTrips[This] # EmptyMap
  /\ out.op = "topBusySlots"
  /\ out.k >= 1

\* C10: a query of the file-ingesting variants changes neither table, so an
\* instance that has never ingested has no entry in them however often it is
\* queried.
C10_QueriesReadOnly ==
  /\ [][(impl \in FileImpls /\ out = NoOut /\ out' # NoOut) => TalliesUnchanged]_vars
  /\ [](impl \in FileImpls /\ pc = "idle" =>
          DOMAIN g_zoneTrips = {} /\ DOMAIN g_zoneHourTrips = {})

\* topZones(k >= 1) answered for an instance that has never ingested
C10_Witness ==
  /\ impl \in FileImpls
  /\ pc = "idle"
  /\ out.op = "topZones"
  /\ out.k >= 1
  /\ DOMAIN g_zoneTrips = {}

\* the lines read so far in this run that have six or more fields, a non-blank
\* zone and a valid timestamp, and are no header
WellFormedRead == {j \in 1..Len(read) : WellFormed(read[j])}

\* C12 (as claimed): in the file-ingesting variants the records counted in a run
\* are exactly the lines read that have 6 or more comma-delimited fields (an
\* empty last field included), a non-blank zone and a valid timestamp, each
\* counted once; a line with fewer than 6 fields adds nothing.
C12_SixFieldLinesCountedOnce ==
  (impl \in FileImpls /\ pc \in {"loop", "done"}) =>
    TotalCounted(TalliesOf(g_zoneTrips)) = Cardinality(WellFormedRead)

\* the first non-empty line of this run was a header line
HeaderSkipped ==
  \E j \in 1..Len(read) :
    HeaderLike(read[j]) /\ \A n \in 1..(j - 1) : EmptyLine(read[n])

\* C14 (as claimed): once the first non-empty line of a run was skipped as the
\* header, every later line with six fields, a non-blank zone and a valid
\* timestamp is counted, whatever its first field.
C14_OnlyOneHeaderDiscarded ==
  [][(/\ impl \in FileImpls
      /\ LineStep
      /\ HeaderSkipped
      /\ ~Malformed(LastRead))
       => TotalCounted(TalliesOf(g_zoneTrips))' = TotalCounted(TalliesOf(g_zoneTrips)) + 1]_vars

NotHeaderLike(i) == ~HeaderLike(i)
NonHeaderRead == SelectSeq(read, NotHeaderLike)

\* C14 (amended): every line of a run whose first field is "TripID" in any case
\* and padding is discarded, wherever it stands and however many there are; the
\* tallies are those of the same input with these lines taken out.
C14_EveryHeaderLineDiscarded ==
  (impl \in FileImpls /\ pc \in {"loop", "done"}) =>
    /\ TalliesOf(g_zoneTrips) = FreshTrips(NonHeaderRead, Len(NonHeaderRead))
    /\ TalliesOf(g_zoneHourTrips) = FreshHours(NonHeaderRead, Len(NonHeaderRead))

\* two header lines, the second one otherwise a valid record, then a record
\* that was counted
C14_Witness ==
  /\ impl \in FileImpls
  /\ Len(read) = 3
  /\ HeaderLike(read[1])
  /\ HeaderLike(read[2]) /\ ~Malformed(read[2])
  /\ WellFormed(read[3])
  /\ TotalCounted(TalliesOf(g_zoneTrips)) = 1

\* a direct call of parseHourFromDatetime, and the marker its argument was
\* built with
HourCall == callArg.fn = "parseHourFromDatetime"
MarkerPM == callArg.prefix = PrefixPm \/ callArg.tail \in {TailPM, TailPm}
MarkerAM == callArg.tail \in {TailAM, TailAm}
Returns(h) == callRet.ok /\ callRet.hour = h

\* C11: part_000's AM/PM-aware parseHourFromDatetime, given one or two hour
\* digits h before the first colon: with an AM marker (and no PM marker, which
\* takes precedence) 12 gives 0 and 1..11 give h; with a PM marker, in either
\* case and anywhere in the string, 1..11 give h + 12 and 12 gives 12; with no
\* marker 0..23 are returned unchanged and larger numbers are refused. Whenever
\* it returns true the hour is in 0..23, an index of the 24-entry array.
C11_AmPmHourMapping ==
  (impl = "part000" /\ HourCall) =>
    /\ callRet.ok => callRet.hour \in Hours
    /\ callArg.w \in {1, 2} =>
         LET h == callArg.h IN
           /\ (MarkerAM /\ ~MarkerPM /\ h = 12) => Returns(0)
           /\ (MarkerAM /\ ~MarkerPM /\ h \in 1..11) => Returns(h)
           /\ (MarkerPM /\ h \in 1..11) => Returns(h + 12)
           /\ (MarkerPM /\ h = 12) => Returns(12)
           /\ (~MarkerAM /\ ~MarkerPM) => IF h \in 0..23 THEN Returns(h) ELSE ~callRet.ok

\* "2024-01-01 01:05pm" parsed as hour 13
C11_Witness ==
  /\ impl = "part000"
  /\ HourCall
  /\ callArg.prefix = PrefixSpace /\ callArg.h = 1 /\ callArg.w = 2 /\ callArg.tail = TailPm
  /\ Returns(13)

\* a direct call of parseCSVLine, and the values its argument was written from
CsvCall == callArg.fn = "parseCSVLine"
WrittenValues == [n \in 1..Len(callArg.written) |-> callArg.written[n][1]]

\* C13: part_000's parseCSVLine ends a field at every comma outside quotes and
\* nowhere else: the fields it returns are, in order, the values the line was
\* written from, with a comma inside a quoted field kept in the field, a doubled
\* quote read as one quote and the enclosing quotes left out; every value is
\* returned when the last one is not empty.
C13_SplitsAtCommasOutsideQuotes ==
  (impl = "part000" /\ CsvCall) =>
    LET F == WrittenValues
        R == callRet.fields
    IN  /\ Len(F) - 1 <= Len(R) /\ Len(R) <= Len(F)
        /\ \A n \in 1..Len(R) : R[n] = F[n]
        /\ F[Len(F)] # <<>> => R = F

\* the line `",""",a` read as the two fields `,"` and `a`
C13_Witness ==
  /\ impl = "part000"
  /\ CsvCall
  /\ WrittenValues = << <<",", "\"">>, <<"a">> >>
  /\ callArg.written[2][2] = FALSE
  /\ callRet.fields = WrittenValues

\* the argument holds no AM/PM marker
NoMarker == ~MarkerAM /\ ~MarkerPM

\* C15 (as claimed): in src/analyzer.cpp as in part_000, parseHourFromDatetime
\* of a timestamp without AM/PM takes the digits immediately before the first
\* colon: one or two digits with a value in 0..23 give that value; no digit,
\* three or more digits, or a larger value are refused.
C15_DigitRunBeforeColon ==
  (impl \in FileImpls /\ HourCall /\ NoMarker) =>
    IF callArg.w \in {1, 2} /\ callArg.h \in 0..23 THEN Returns(callArg.h) ELSE ~callRet.ok

\* C15 (amended): part_000's parseHourFromDatetime behaves as claimed;
\* src/analyzer.cpp's reads exactly the two characters before the first colon,
\* so it refuses a single hour digit, and of two or more digits it takes the
\* last two, returning their value when it is in 0..23, markers or not.
C15_HourDigitsPerVariant ==
  /\ (impl = "part000" /\ HourCall /\ NoMarker) =>
       IF callArg.w \in {1, 2} /\ callArg.h \in 0..23 THEN Returns(callArg.h) ELSE ~callRet.ok
  /\ (impl = "analyzer" /\ HourCall) =>
       IF callArg.w >= 2 /\ callArg.h % 100 <= 23 THEN Returns(callArg.h % 100)
       ELSE ~callRet.ok

\* src/analyzer.cpp refusing "2024-01-01 8:05"
C15_Witness ==
  /\ impl = "analyzer"
  /\ HourCall
  /\ callArg.prefix = PrefixSpace /\ callArg.h = 8 /\ callArg.w = 1 /\ callArg.tail = TailPlain
  /\ ~callRet.ok

\* C16 (as claimed): in part_001, after an ingestFile run that counted at least
\* one record, topZones(k) and topBusySlots(k) return a non-empty vector for
\* every k >= 1.
C16_QueriesSeeIngestedTallies ==
  (/\ impl = "part001"
   /\ pc = "done"
   /\ TalliesOf(ZONE_ingestFile) # EmptyMap
   /\ out.op \in {"topZones", "topBusySlots"}
   /\ out.k >= 1)
    => out.v # <<>>

====
